---- MODULE Spec2Model ----
(***************************************************************************)
(* AdSend (src/js/ad-injector.js): configuration loading, per-container    *)
(* shuffled ad queues, ad placement in slot-style and generic containers,  *)
(* and the rotation / refresh timers.                                      *)
(*                                                                         *)
(* The page is a small DOM: a preset slot S (class "ad-send-banner"), a    *)
(* preset slot B (id "banner-slot-1") and a generic list G whose children  *)
(* carry class "item".  The wrappers the script creates inside S, B and G  *)
(* (WS, WB, WG) are elements too: they carry class "ad-send-banner" and    *)
(* are therefore found by the selector ".ad-send-banner".  A wrapper that  *)
(* sendAd creates inside a wrapper is recorded in the outer wrapper's      *)
(* content (kind "inner"); such second-level wrappers have no effect on    *)
(* any other modelled element and are not themselves re-processed.         *)
(* Styles, sizes and animations are not modelled.                          *)
(***************************************************************************)
EXTENDS Integers, Sequences, FiniteSets, Bags, TLC

VARIABLES
  propertyId,          \* data-property of the script tag ("" when absent)
  page,                \* the containers present in the host document
  server,              \* the response bodies the config URL may serve
  adConfigBanners,     \* window._adConfigBanners (<<>> while undefined)
  banners,             \* markup strings
  containerSelectors,
  copySiblingSelector, \* "" for null
  adQueues,            \* WeakMap element -> queue; DOMAIN = keys present
  wrapper,             \* per container: the ad wrapper and what it holds
  children,            \* per generic container: number of non-ad children
  dataAdIndex,         \* per generic container: the data-ad-index attribute
  wrapperPos,          \* per generic container: index of the non-ad child
                       \* the wrapper follows (-1: none)
  calls,               \* fetchAllBannersFromFile invocations in flight
  initPc,              \* position of initAdInjector
  rotationTimer,       \* setInterval(rotateAdSlots) is installed
  refreshTimer,        \* setInterval(fetchAllBannersFromFile) is installed
  pending,             \* elements still to visit in the running forEach
  container,           \* argument of the latest sendAd call
  adHtml,              \* value getNextAd returned to the latest sendAd
  served,              \* per element: ads returned since its last refill
  lastRet              \* per element: the ad returned by the previous draw

cfgVars == <<adConfigBanners, banners, containerSelectors, copySiblingSelector>>
domVars == <<wrapper, children, dataAdIndex, wrapperPos>>
procVars == <<calls, initPc, rotationTimer, refreshTimer, pending>>
obsVars == <<container, adHtml, served, lastRet>>
vars == <<propertyId, page, server, cfgVars, adQueues, domVars, procVars, obsVars>>

(***************************** bounds **************************************)
MaxChildren == 4
MaxInFlight == 1
MaxLen == 3

(***************************** generic helpers *****************************)
Range(s) == {s[i] : i \in DOMAIN s}

SeqToBag(s) == [x \in Range(s) |-> Cardinality({i \in DOMAIN s : s[i] = x})]

RECURSIVE FilterSeq(_, _)
FilterSeq(s, keep) ==
  IF s = <<>> THEN <<>>
  ELSE IF Head(s) \in keep THEN <<Head(s)>> \o FilterSeq(Tail(s), keep)
       ELSE FilterSeq(Tail(s), keep)

StartsWith(s, prefix) ==
  /\ Len(prefix) <= Len(s)
  /\ \A i \in 1..Len(prefix) : s[i] = prefix[i]

(***************************** shuffle *************************************)
\* r[m] is Math.floor(Math.random() * m) for each value m the loop sees.
RECURSIVE RandomChoices(_)
RandomChoices(n) ==
  IF n = 0 THEN {<<>>}
  ELSE {Append(r, i) : r \in RandomChoices(n - 1), i \in 0..(n - 1)}

RECURSIVE shuffleLoop(_, _, _)
shuffleLoop(array, m, r) ==
  IF m = 0 THEN array
  ELSE LET i == r[m]
           m1 == m - 1
           t == array[m1 + 1]
       IN shuffleLoop([array EXCEPT ![m1 + 1] = array[i + 1], ![i + 1] = t], m1, r)

shuffle(array, r) == shuffleLoop(array, Len(array), r)

(***************************** getNextAd ***********************************)
NoAd == [img |-> "", href |-> ""]

QueuePut(queues, e, q) ==
  [x \in (DOMAIN queues) \cup {e} |-> IF x = e THEN q ELSE queues[x]]

\* variant: refills while one ad is still queued
needsRefillEarly(queues, e) == e \notin DOMAIN queues \/ Len(queues[e]) <= 1

\* line 141: !queue || queue.length === 0
needsRefill(queues, e) == e \notin DOMAIN queues \/ Len(queues[e]) = 0

\* variant: reads queue[0] without removing it
shiftKeep(queue) == queue

shift(queue) == Tail(queue)

\* [ret |-> the ad returned, queues |-> the WeakMap after the call]
getNextAd(queues, e, bs, r) ==
  LET queue == IF needsRefill(queues, e) THEN shuffle(bs, r) ELSE queues[e]
  IN [ret |-> Head(queue), queues |-> QueuePut(queues, e, shift(queue))]

(***************************** configuration ******************************)
\* JSON values are records with a type tag; strings use "" for null/absent.
Sel(s) == [type |-> "str", v |-> s]
Obj(n) == [type |-> "obj", v |-> n]
NullSel == [type |-> "null", v |-> ""]
Bn(i, t) == [type |-> "obj", imageUrl |-> i, targetUrl |-> t]
NullBanner == [type |-> "null", imageUrl |-> "", targetUrl |-> ""]

Entry(pid, url, cs, bs, copy) ==
  [property_id |-> pid, url |-> url, containers |-> cs, banners |-> bs,
   copySiblingSelector |-> copy]

Array(entries) == [kind |-> "array", entries |-> entries]
Malformed == [kind |-> "malformed", entries |-> <<>>]
NotArray == [kind |-> "notArray", entries |-> <<>>]
NoBody == [kind |-> "none", entries |-> <<>>]

\* window.location.origin + window.location.pathname, as path segments
PageUrl == <<"site", "page">>

\* variant: takes the first entry whatever its property_id
findConfigAny(configs, pid) == IF Len(configs) > 0 THEN 1 ELSE 0

\* configs.find(cfg => cfg.property_id === propertyId): index, 0 for none
findConfig(configs, pid) ==
  LET hits == {i \in DOMAIN configs : configs[i].property_id = pid}
  IN IF hits = {} THEN 0 ELSE CHOOSE i \in hits : \A j \in hits : i <= j

\* containerSelectors.map(c => c.name) reads a property of null
mapNamesThrows(cs) == \E i \in DOMAIN cs : cs[i].type = "null"

RECURSIVE mapNames(_)
mapNames(cs) ==
  IF cs = <<>> THEN <<>>
  ELSE IF Head(cs).type = "obj" /\ Head(cs).v # ""
       THEN <<Sel(Head(cs).v)>> \o mapNames(Tail(cs))
       ELSE mapNames(Tail(cs))

bannerMapThrows(bs) == \E i \in DOMAIN bs : bs[i].type = "null"

RECURSIVE bannerMarkup(_)
bannerMarkup(bs) ==
  IF bs = <<>> THEN <<>>
  ELSE LET b == Head(bs)
       IN IF b.imageUrl # "" /\ b.targetUrl # ""
          THEN <<[img |-> b.imageUrl, href |-> b.targetUrl]>> \o bannerMarkup(Tail(bs))
          ELSE IF b.imageUrl # ""
               THEN <<[img |-> b.imageUrl, href |-> ""]>> \o bannerMarkup(Tail(bs))
               ELSE bannerMarkup(Tail(bs))

NoConfig ==
  [adConfigBanners |-> <<>>, banners |-> <<>>, containerSelectors |-> <<>>,
   copySiblingSelector |-> ""]

CurrentConfig ==
  [adConfigBanners |-> adConfigBanners, banners |-> banners,
   containerSelectors |-> containerSelectors,
   copySiblingSelector |-> copySiblingSelector]

\* The synchronous tail of fetchAllBannersFromFile once res.json() resolved
\* with an array: the configuration it leaves behind.
applyConfigs(cfg, configs, pid) ==
  LET i == findConfig(configs, pid)
  IN IF i = 0 THEN cfg
     ELSE
       LET config == configs[i]
           c1 == [cfg EXCEPT !.adConfigBanners = config.banners]
           raw == config.containers
           needMap == Len(raw) > 0 /\ raw[1].type = "obj" /\ raw[1].v # ""
           c2 == [c1 EXCEPT !.containerSelectors = raw]
           c3 == [c2 EXCEPT !.containerSelectors =
                               IF needMap THEN mapNames(raw) ELSE raw]
       IN IF config.url # <<>> /\ ~StartsWith(PageUrl, config.url) THEN c1
          ELSE IF needMap /\ mapNamesThrows(raw) THEN c2
          ELSE IF bannerMapThrows(config.banners) THEN c3
          ELSE [c3 EXCEPT !.banners = bannerMarkup(config.banners),
                          !.copySiblingSelector = config.copySiblingSelector]

\* a body after which fetchAllBannersFromFile returns or throws before it
\* reaches a matching entry
bodyFails(body, pid) ==
  \/ body.kind # "array"
  \/ \A i \in DOMAIN body.entries : body.entries[i].property_id # pid

(***************************** the host page ******************************)
Containers == {"S", "B", "G"}
Wrappers == {"WS", "WB", "WG"}
Elements == Containers \cup Wrappers
DocOrder == <<"S", "WS", "B", "WB", "G", "WG">>

Parent(w) == CASE w = "WS" -> "S" [] w = "WB" -> "B" [] w = "WG" -> "G"

ClassList(e) ==
  CASE e = "S" -> {"ad-send-banner"}
    [] e = "B" -> {}
    [] e = "G" -> {"list"}
    [] OTHER -> {"ad-send-banner"}

Id(e) == IF e = "B" THEN <<"banner-slot-", "1">> ELSE <<>>

NoWrapper == [exists |-> FALSE, kind |-> "none", ad |-> NoAd]

Attached(e) ==
  IF e \in Containers THEN e \in page
  ELSE Parent(e) \in page /\ wrapper[Parent(e)].exists

matchesSelector(e, s) ==
  CASE s = ".ad-send-banner" -> "ad-send-banner" \in ClassList(e)
    [] s = ".list" -> "list" \in ClassList(e)
    [] s = "#banner-slot-1" -> Id(e) = <<"banner-slot-", "1">>
    [] OTHER -> FALSE

querySelectorAll(s) ==
  FilterSeq(DocOrder, {e \in Elements : Attached(e) /\ matchesSelector(e, s)})

\* document.querySelectorAll(selector) with a selector that is an object
selectorsThrow(cs) == \E i \in DOMAIN cs : cs[i].type = "obj"

RECURSIVE collectContainers(_)
collectContainers(cs) ==
  IF cs = <<>> THEN <<>>
  ELSE (IF Head(cs).type = "str" THEN querySelectorAll(Head(cs).v) ELSE <<>>)
       \o collectContainers(Tail(cs))

\* container.querySelector(copySiblingSelector) in a generic container
hasCustomRef(c, sel) == sel = ".item" /\ children[c] >= 1

(***************************** data-ad-index *******************************)
Digits == <<"0", "1", "2", "3", "4", "5", "6", "7", "8", "9">>
IsDigit(ch) == \E i \in DOMAIN Digits : Digits[i] = ch
DigitVal(ch) == (CHOOSE i \in DOMAIN Digits : Digits[i] = ch) - 1

RECURSIVE parseDigits(_, _, _)
parseDigits(s, acc, seen) ==
  IF s = <<>> \/ ~IsDigit(Head(s)) THEN [nan |-> ~seen, n |-> acc]
  ELSE parseDigits(Tail(s), 10 * acc + DigitVal(Head(s)), TRUE)

\* parseInt(text, 10)
parseInt(s) ==
  IF s # <<>> /\ Head(s) = "-"
  THEN LET p == parseDigits(Tail(s), 0, FALSE) IN [nan |-> p.nan, n |-> 0 - p.n]
  ELSE parseDigits(s, 0, FALSE)

\* String(idx) for the indexes the code stores
toString(n) ==
  IF n < 10 THEN <<Digits[n + 1]>>
  ELSE <<Digits[(n \div 10) + 1], Digits[(n % 10) + 1]>>

NoAttr == [present |-> FALSE, v |-> <<>>]
Attr(v) == [present |-> TRUE, v |-> v]

validIndexes(n) == 1..(n - 2)

\* variant: threshold of two children
tooFewChildrenLow(n) == n < 2

\* line 228: if (children.length < 3) return
tooFewChildren(n) == n < 3

\* variant: ignores the persisted attribute
chooseIndexFresh(attr, n, rnd) == [idx |-> rnd, attr |-> Attr(toString(rnd))]

\* lines 229-242: the insertion index and the attribute left behind
chooseIndex(attr, n, rnd) ==
  IF attr.present
  THEN LET p == parseInt(attr.v)
       IN IF p.nan \/ p.n < 1 \/ p.n >= n - 1
          THEN [idx |-> 1, attr |-> Attr(toString(1))]
          ELSE [idx |-> p.n, attr |-> attr]
  ELSE [idx |-> rnd, attr |-> Attr(toString(rnd))]

\* refNode = children[idx]: the child the wrapper is put after
refIndex(idx) == idx

(***************************** sendAd **************************************)
isSlot(e) ==
  \/ "ad-send-banner" \in ClassList(e)
  \/ StartsWith(Id(e), <<"banner-slot-">>)

\* window._adConfigBanners.find(b => adHtml.includes(b.imageUrl))
RECURSIVE findBanner(_, _)
findBanner(bs, ad) ==
  IF bs = <<>> THEN [threw |-> FALSE, found |-> FALSE, targetUrl |-> ""]
  ELSE IF Head(bs).type = "null"
       THEN [threw |-> TRUE, found |-> FALSE, targetUrl |-> ""]
       ELSE IF Head(bs).imageUrl \in {"", ad.img, ad.href}
            THEN [threw |-> FALSE, found |-> TRUE, targetUrl |-> Head(bs).targetUrl]
            ELSE findBanner(Tail(bs), ad)

DomState ==
  [adQueues |-> adQueues, wrapper |-> wrapper, dataAdIndex |-> dataAdIndex,
   wrapperPos |-> wrapperPos, adHtml |-> adHtml, threw |-> FALSE]

\* lines 170-222: a preset slot (a wrapper found by a selector is one too)
sendAdSlot(e, r) ==
  LET nx == getNextAd(adQueues, e, banners, r)
      c == IF e \in Containers THEN e ELSE Parent(e)
      kind == IF e \in Containers THEN "ad" ELSE "inner"
  IN [DomState EXCEPT
        !.adQueues = nx.queues,
        !.wrapper = [wrapper EXCEPT ![c] = [exists |-> TRUE, kind |-> kind, ad |-> nx.ret]],
        !.adHtml = nx.ret]

\* lines 224-346: a generic container
sendAdGeneric(c, r, rnd) ==
  IF tooFewChildren(children[c]) THEN DomState
  ELSE IF ~dataAdIndex[c].present /\ validIndexes(children[c]) = {} THEN DomState
  ELSE
    LET ci == chooseIndex(dataAdIndex[c], children[c], rnd)
        nx == getNextAd(adQueues, c, banners, r)
        old == IF wrapper[c].exists THEN wrapper[c]
               ELSE [exists |-> TRUE, kind |-> "empty", ad |-> NoAd]
        fb == findBanner(adConfigBanners, nx.ret)
        content ==
          IF copySiblingSelector # ""
          THEN IF hasCustomRef(c, copySiblingSelector)
               THEN IF fb.threw THEN old
                    ELSE IF fb.found /\ fb.targetUrl # ""
                         THEN [exists |-> TRUE, kind |-> "link", ad |-> nx.ret]
                         ELSE [exists |-> TRUE, kind |-> "clone", ad |-> nx.ret]
               ELSE old
          ELSE [exists |-> TRUE, kind |-> "ad", ad |-> nx.ret]
    IN [adQueues |-> nx.queues,
        wrapper |-> [wrapper EXCEPT ![c] = content],
        dataAdIndex |-> [dataAdIndex EXCEPT ![c] = ci.attr],
        wrapperPos |-> [wrapperPos EXCEPT ![c] = refIndex(ci.idx)],
        adHtml |-> nx.ret,
        threw |-> copySiblingSelector # "" /\ hasCustomRef(c, copySiblingSelector)
                  /\ fb.threw]

sendAd(e, r, rnd) ==
  IF isSlot(e) THEN sendAdSlot(e, r) ELSE sendAdGeneric(e, r, rnd)

(***************************** served documents ***************************)
Site == "site1"

bannerA == Bn("a.png", "ta")
bannerB == Bn("b.png", "")
bannerC == Bn("c.png", "tc")
bannerD == Bn("d.png", "")

\* slot page: a class selector and an id selector
docSlots ==
  Array(<<Entry(Site, <<"site">>, <<Obj(".ad-send-banner"), Obj("#banner-slot-1")>>,
                <<bannerA, bannerB>>, "")>>)
docSlotById ==
  Array(<<Entry(Site, <<>>, <<Sel("#banner-slot-1")>>, <<bannerB, bannerC>>, "")>>)

\* configuration page
docOk == Array(<<Entry(Site, <<>>, <<Sel("#banner-slot-1")>>, <<bannerA, bannerB>>, "")>>)
docNew ==
  Array(<<Entry("other", <<>>, <<Sel(".list")>>, <<bannerA>>, ""),
          Entry(Site, <<"site">>, <<Obj("#banner-slot-1"), Sel(".x"), Obj("")>>,
                <<bannerC, Bn("", "tx"), bannerD>>, ".item")>>)
docOtherUrl ==
  Array(<<Entry(Site, <<"elsewhere">>, <<Sel("#banner-slot-1")>>, <<bannerD, bannerA>>, "")>>)
docBadSelectors ==
  Array(<<Entry(Site, <<>>, <<Obj("#banner-slot-1"), NullSel>>, <<bannerD, bannerB>>, "")>>)
docBadBanners ==
  Array(<<Entry(Site, <<>>, <<Sel("#banner-slot-1")>>, <<bannerD, NullBanner>>, "")>>)
docOneBanner == Array(<<Entry(Site, <<>>, <<Sel("#banner-slot-1")>>, <<bannerA>>, "")>>)
docNoBanners == Array(<<Entry(Site, <<>>, <<Sel("#banner-slot-1")>>, <<>>, "")>>)
docNoSelectors == Array(<<Entry(Site, <<>>, <<>>, <<bannerA, bannerC>>, "")>>)
docOtherSite == Array(<<Entry("other", <<>>, <<Sel("#banner-slot-1")>>, <<bannerA, bannerB>>, "")>>)

\* generic page
docList == Array(<<Entry(Site, <<>>, <<Sel(".list")>>, <<bannerA, bannerB>>, "")>>)
docListCopy == Array(<<Entry(Site, <<>>, <<Sel(".list")>>, <<bannerA, bannerB>>, ".item")>>)
docListCopyMiss ==
  Array(<<Entry(Site, <<>>, <<Sel(".list")>>, <<bannerA, bannerB>>, ".missing")>>)
docListBadBanners ==
  Array(<<Entry(Site, <<>>, <<Sel(".list")>>, <<NullBanner, bannerA>>, "")>>)
docListAndWrappers ==
  Array(<<Entry(Site, <<>>, <<Sel(".list"), Sel(".ad-send-banner")>>,
                <<bannerA, bannerB>>, "")>>)

\* data-ad-index values the host page may have written
HostAttrs == {NoAttr, Attr(<<"2", "x">>), Attr(<<"0">>), Attr(<<"-", "1">>), Attr(<<"x">>)}

Scenarios ==
  { [page |-> {"S"}, attrs |-> {NoAttr}, server |-> {docSlots, docSlotById}],
    [page |-> {"B"}, attrs |-> {NoAttr},
     server |-> {docOk, docNew, docOtherUrl, docBadSelectors, docBadBanners,
                 docOneBanner, docNoBanners, docNoSelectors, docOtherSite,
                 Malformed, NotArray}],
    [page |-> {"G"}, attrs |-> HostAttrs, server |-> {docList}],
    [page |-> {"G"}, attrs |-> {NoAttr}, server |-> {docListCopy, docListCopyMiss}],
    [page |-> {"G"}, attrs |-> {NoAttr}, server |-> {docListCopy, docListBadBanners}],
    [page |-> {"G"}, attrs |-> {NoAttr}, server |-> {docListAndWrappers}] }

(***************************** the program ********************************)
Generic == {"G"}
CallIds == 0..MaxInFlight
NotCalled == [pc |-> "idle", res |-> "none", body |-> NoBody]
EmptyMap == <<>>

Init ==
  /\ propertyId \in {"", Site}
  /\ \E sc \in Scenarios :
       /\ page = sc.page
       /\ server = sc.server
       /\ dataAdIndex \in [Generic -> sc.attrs]
  /\ adConfigBanners = <<>>
  /\ banners = <<>>
  /\ containerSelectors = <<>>
  /\ copySiblingSelector = ""
  /\ adQueues = EmptyMap
  /\ wrapper = [c \in Containers |-> NoWrapper]
  /\ children \in [Generic -> 0..MaxChildren]
  /\ \A c \in Generic \ page : children[c] = 0
  /\ wrapperPos = [c \in Generic |-> -1]
  /\ calls = [k \in CallIds |->
                IF k = 0 /\ propertyId # ""
                THEN [pc |-> "awaitFetch", res |-> "none", body |-> NoBody]
                ELSE NotCalled]
  /\ initPc = IF propertyId = "" THEN "absent" ELSE "fetch"
  /\ rotationTimer = FALSE
  /\ refreshTimer = FALSE
  /\ pending = <<>>
  /\ container = ""
  /\ adHtml = NoAd
  /\ served = EmptyMap
  /\ lastRet = EmptyMap

SetConfig(cfg) ==
  /\ adConfigBanners' = cfg.adConfigBanners
  /\ banners' = cfg.banners
  /\ containerSelectors' = cfg.containerSelectors
  /\ copySiblingSelector' = cfg.copySiblingSelector

\* lines 440-443
installTimers(bs) == Len(bs) > 1

\* lines 425-443, run when the awaited fetchAllBannersFromFile has settled
initContinue(cfg) ==
  IF Len(cfg.containerSelectors) = 0 \/ selectorsThrow(cfg.containerSelectors)
  THEN /\ initPc' = "done"
       /\ UNCHANGED <<rotationTimer, refreshTimer, pending>>
  ELSE LET all == collectContainers(cfg.containerSelectors)
       IN IF Len(cfg.banners) > 0 /\ Len(all) > 0
          THEN /\ \E r \in RandomChoices(Len(all)) : pending' = shuffle(all, r)
               /\ initPc' = "placing"
               /\ UNCHANGED <<rotationTimer, refreshTimer>>
          ELSE /\ initPc' = "done"
               /\ rotationTimer' = installTimers(cfg.banners)
               /\ refreshTimer' = installTimers(cfg.banners)
               /\ UNCHANGED pending

\* fetchAllBannersFromFile call k returns, leaving configuration cfg; res is
\* what its fetch gave
endCall(k, cfg, res) ==
  /\ SetConfig(cfg)
  /\ calls' = [calls EXCEPT ![k] = [pc |-> "idle", res |-> res, body |-> NoBody]]
  /\ IF k = 0 THEN initContinue(cfg)
     ELSE UNCHANGED <<initPc, rotationTimer, refreshTimer, pending>>
  /\ UNCHANGED <<propertyId, page, server, adQueues, domVars, obsVars>>

\* setInterval(fetchAllBannersFromFile, 5 * 60 * 1000) fires
StartRefresh(k) ==
  /\ k # 0
  /\ refreshTimer
  /\ pending = <<>>
  /\ calls[k].pc = "idle"
  /\ calls' = [calls EXCEPT ![k] = [pc |-> "awaitFetch", res |-> "none", body |-> NoBody]]
  /\ UNCHANGED <<propertyId, page, server, cfgVars, adQueues, domVars, obsVars,
                 initPc, rotationTimer, refreshTimer, pending>>

\* await fetch(configUrl) rejects, or resolves with res.ok false
FetchFail(k) ==
  /\ calls[k].pc = "awaitFetch"
  /\ pending = <<>>
  /\ \E res \in {"rejected", "notOk"} : endCall(k, CurrentConfig, res)

\* await fetch(configUrl) resolves with res.ok
FetchResolve(k) ==
  /\ calls[k].pc = "awaitFetch"
  /\ pending = <<>>
  /\ \E body \in server :
       calls' = [calls EXCEPT ![k] = [pc |-> "awaitJson", res |-> "ok", body |-> body]]
  /\ UNCHANGED <<propertyId, page, server, cfgVars, adQueues, domVars, obsVars,
                 initPc, rotationTimer, refreshTimer, pending>>

\* await res.json() settles; lines 366-394 run
JsonResolve(k) ==
  /\ calls[k].pc = "awaitJson"
  /\ pending = <<>>
  /\ endCall(k, IF calls[k].body.kind = "array"
                THEN applyConfigs(CurrentConfig, calls[k].body.entries, propertyId)
                ELSE CurrentConfig,
                "ok")

\* setInterval(rotateAdSlots, 10000) fires: lines 400-411
RotateAdSlots ==
  /\ rotationTimer
  /\ pending = <<>>
  /\ IF \/ Len(banners) = 0
        \/ Len(containerSelectors) = 0
        \/ selectorsThrow(containerSelectors)
        \/ Len(collectContainers(containerSelectors)) = 0
     THEN UNCHANGED pending
     ELSE LET all == collectContainers(containerSelectors)
          IN \E r \in RandomChoices(Len(all)) : pending' = shuffle(all, r)
  /\ UNCHANGED <<propertyId, page, server, cfgVars, adQueues, domVars, obsVars,
                 calls, initPc, rotationTimer, refreshTimer>>

\* one iteration of the forEach of lines 412-414 or 436-438; the last
\* iteration of the initial loop runs on into lines 440-443
SendAdStep ==
  /\ pending # <<>>
  /\ LET e == Head(pending)
     IN \E r \in RandomChoices(IF needsRefill(adQueues, e) THEN Len(banners) ELSE 0) :
        \E rnd \in (IF e \in Generic /\ validIndexes(children[e]) # {}
                    THEN validIndexes(children[e]) ELSE {0}) :
          LET res == sendAd(e, r, rnd)
              rest == IF res.threw THEN <<>> ELSE Tail(pending)
          IN /\ adQueues' = res.adQueues
             /\ wrapper' = res.wrapper
             /\ dataAdIndex' = res.dataAdIndex
             /\ wrapperPos' = res.wrapperPos
             /\ adHtml' = res.adHtml
             /\ container' = e
             /\ pending' = rest
             /\ IF initPc = "placing" /\ rest = <<>>
                THEN /\ initPc' = "done"
                     /\ rotationTimer' = (~res.threw /\ installTimers(banners))
                     /\ refreshTimer' = (~res.threw /\ installTimers(banners))
                ELSE UNCHANGED <<initPc, rotationTimer, refreshTimer>>
  /\ UNCHANGED <<propertyId, page, server, cfgVars, children, calls, served, lastRet>>

\* the host page appends a child to a generic container
HostAddChild(c) ==
  /\ c \in page
  /\ pending = <<>>
  /\ children[c] < MaxChildren
  /\ children' = [children EXCEPT ![c] = @ + 1]
  /\ UNCHANGED <<propertyId, page, server, cfgVars, adQueues, wrapper, dataAdIndex,
                 wrapperPos, procVars, obsVars>>

\* the host page removes the last non-ad child of a generic container
HostRemoveChild(c) ==
  /\ c \in page
  /\ pending = <<>>
  /\ children[c] > 0
  /\ children' = [children EXCEPT ![c] = @ - 1]
  /\ wrapperPos' = [wrapperPos EXCEPT ![c] = IF @ = children[c] - 1 THEN @ - 1 ELSE @]
  /\ UNCHANGED <<propertyId, page, server, cfgVars, adQueues, wrapper, dataAdIndex,
                 procVars, obsVars>>

Next ==
  \/ \E k \in CallIds : StartRefresh(k)
  \/ \E k \in CallIds : FetchFail(k)
  \/ \E k \in CallIds : FetchResolve(k)
  \/ \E k \in CallIds : JsonResolve(k)
  \/ RotateAdSlots
  \/ SendAdStep
  \/ \E c \in Generic : HostAddChild(c)
  \/ \E c \in Generic : HostRemoveChild(c)

Spec == Init /\ [][Next]_vars

(***************************** the queue alone ****************************)
\* getNextAd called again and again with one banner list.
\* getNextAd never looks inside a banner, so lists are taken up to renaming:
\* the first banner is a.png, and a banner's first use follows the uses of
\* the banners before it.
MarkupSeq == bannerMarkup(<<bannerA, bannerB, bannerC>>)
Markups == Range(MarkupSeq)
MarkupNo(m) == CHOOSE i \in DOMAIN MarkupSeq : MarkupSeq[i] = m
BannerLists ==
  {l \in UNION {[1..n -> Markups] : n \in 1..MaxLen} :
     \A i \in DOMAIN l :
       \A j \in 1..(MarkupNo(l[i]) - 1) : \E h \in 1..(i - 1) : l[h] = MarkupSeq[j]}
QueueContainers == {"S", "G"}

MapPut(map, e, v) == [x \in (DOMAIN map) \cup {e} |-> IF x = e THEN v ELSE map[x]]

InitQueue ==
  /\ propertyId = Site
  /\ page = Containers
  /\ server = {}
  /\ adConfigBanners = <<>>
  /\ banners \in BannerLists
  /\ containerSelectors = <<>>
  /\ copySiblingSelector = ""
  /\ adQueues = EmptyMap
  /\ wrapper = [c \in Containers |-> NoWrapper]
  /\ children = [c \in Generic |-> 0]
  /\ dataAdIndex = [c \in Generic |-> NoAttr]
  /\ wrapperPos = [c \in Generic |-> -1]
  /\ calls = [k \in CallIds |-> NotCalled]
  /\ initPc = "done"
  /\ rotationTimer = FALSE
  /\ refreshTimer = FALSE
  /\ pending = <<>>
  /\ container = ""
  /\ adHtml = NoAd
  /\ served = EmptyMap
  /\ lastRet = EmptyMap

\* adHtml = getNextAd(e, banners)
Draw(e) ==
  \E r \in RandomChoices(IF needsRefill(adQueues, e) THEN Len(banners) ELSE 0) :
    LET nx == getNextAd(adQueues, e, banners, r)
        refilled == needsRefill(adQueues, e)
    IN /\ adQueues' = nx.queues
       /\ adHtml' = nx.ret
       /\ container' = e
       /\ served' = MapPut(served, e, IF e \in DOMAIN served /\ ~refilled
                                      THEN Append(served[e], nx.ret)
                                      ELSE <<nx.ret>>)
       /\ lastRet' = IF e \in DOMAIN served
                     THEN MapPut(lastRet, e, served[e][Len(served[e])])
                     ELSE lastRet
       /\ UNCHANGED <<propertyId, page, server, cfgVars, domVars, procVars>>

NextQueue == \E e \in QueueContainers : Draw(e)

SpecQueue == InitQueue /\ [][NextQueue]_vars

(***************************** claims *************************************)
Last(q) == q[Len(q)]

\* the step is a sendAd call on element e
SendAdOn(e) == pending # <<>> /\ Head(pending) = e

wrapperCount(c) ==
  (IF wrapper[c].exists THEN 1 ELSE 0) + (IF wrapper[c].kind = "inner" THEN 1 ELSE 0)

\* C1: with one banner list, a container's draws go through the list without
\* replacement: a draw from a queue that is present and non-empty takes its
\* head and installs no new shuffle, and after every draw the ads returned
\* since the last refill together with the ads still queued are exactly the
\* banner list (each banner as often as it is listed).
C1_ShuffleWithoutReplacement ==
  [][\A e \in QueueContainers :
       (container' = e /\ e \in DOMAIN adQueues') =>
         /\ (e \in DOMAIN adQueues /\ adQueues[e] # <<>> /\ adQueues' # adQueues) =>
              (adHtml' = Head(adQueues[e]) /\ adQueues'[e] = Tail(adQueues[e]))
         /\ e \in DOMAIN served' =>
              /\ SeqToBag(served'[e] \o adQueues'[e]) = SeqToBag(banners)
              /\ Len(served'[e]) <= Len(banners)]_vars

\* a container has drawn through a whole three-banner list and started the
\* next shuffle
C1_Witness ==
  /\ Cardinality(Range(banners)) = 3
  /\ "S" \in DOMAIN lastRet
  /\ Len(served["S"]) = 1
  /\ Len(adQueues["S"]) = 2
  /\ "G" \in DOMAIN served
  /\ Len(served["G"]) = 3

\* C3 as stated, taken for lists of two or more banners that are all
\* different: two consecutive draws for one container never return the same
\* banner, refills included.
C3_NoImmediateRepeat ==
  \A e \in DOMAIN lastRet :
    (Len(banners) >= 2 /\ Cardinality(Range(banners)) = Len(banners)) =>
      Last(served[e]) # lastRet[e]

\* C3 amended: with pairwise distinct banners, two consecutive draws for one
\* container that are served by the same shuffle (no refill between them)
\* never return the same banner.
C3_NoRepeatWithinShuffle ==
  \A e \in DOMAIN lastRet :
    (Len(banners) >= 2 /\ Cardinality(Range(banners)) = Len(banners)
       /\ Len(served[e]) >= 2) =>
      Last(served[e]) # lastRet[e]

\* two draws from one shuffle of three distinct banners have been made
C3_Witness ==
  /\ Cardinality(Range(banners)) = 3
  /\ "S" \in DOMAIN lastRet
  /\ Len(served["S"]) = 3
  /\ adQueues["S"] = <<>>

\* C2: after a re-fetch no banner left over in a queue is returned: every ad
\* a placement draws belongs to the banner list now configured.
C2_NoLeftoverAfterRefetch ==
  [][(pending # <<>> /\ adQueues' # adQueues) => adHtml' \in Range(banners)]_vars

\* C4: once the initial load or a rotation tick has run to its end, every
\* container that has had an ad placed in it has exactly one wrapper.
C4_OneWrapperPerContainer ==
  pending = <<>> =>
    \A c \in Containers : c \in DOMAIN adQueues => wrapperCount(c) = 1

\* C5: sendAd on a generic container with fewer than three non-ad children
\* creates no wrapper, draws no ad and leaves data-ad-index alone.
C5_FewChildrenSkipped ==
  [][\A c \in Generic :
       (SendAdOn(c) /\ ~isSlot(c) /\ children[c] < 3) =>
         /\ wrapper'[c] = wrapper[c]
         /\ adQueues' = adQueues
         /\ dataAdIndex'[c] = dataAdIndex[c]
         /\ wrapperPos'[c] = wrapperPos[c]]_vars

\* the latest sendAd was on G, which has too few children and no wrapper,
\* while ads are configured for it
C5_Witness ==
  /\ container = "G"
  /\ children["G"] = 2
  /\ ~wrapper["G"].exists
  /\ "G" \notin DOMAIN adQueues
  /\ Len(banners) > 0
  /\ rotationTimer

persistedIndexValid(c) ==
  /\ dataAdIndex[c].present
  /\ ~parseInt(dataAdIndex[c].v).nan
  /\ 1 <= parseInt(dataAdIndex[c].v).n
  /\ parseInt(dataAdIndex[c].v).n <= children[c] - 2

\* C6: while the persisted index i satisfies 1 <= i <= n-2, no step changes
\* data-ad-index, and every sendAd on the container leaves the wrapper right
\* after children[i] (the child at index i, counting from 0).
C6_PersistedIndexStable ==
  [][\A c \in Generic :
       persistedIndexValid(c) =>
         /\ dataAdIndex'[c] = dataAdIndex[c]
         /\ SendAdOn(c) =>
              /\ wrapper'[c].exists
              /\ wrapperPos'[c] = parseInt(dataAdIndex[c].v).n]_vars

\* the host wrote "2x", which parses to 2; G has four children and had two
\* ads placed, the wrapper sitting after children[2]
C6_Witness ==
  /\ container = "G"
  /\ dataAdIndex["G"] = Attr(<<"2", "x">>)
  /\ children["G"] = 4
  /\ wrapper["G"].exists
  /\ wrapperPos["G"] = 2
  /\ "G" \in DOMAIN adQueues
  /\ adQueues["G"] = <<>>

\* call k of fetchAllBannersFromFile ends in this step without having found
\* a matching entry: fetch rejected, response not ok, body not parseable or
\* not an array, or no entry for the site
fetchFails(k) ==
  /\ calls'[k].pc = "idle"
  /\ \/ calls[k].pc = "awaitFetch"
     \/ calls[k].pc = "awaitJson" /\ bodyFails(calls[k].body, propertyId)

\* C7 as stated: after any failed fetch, initial or periodic, the banner
\* list is empty.
C7_FailureMeansNoAds ==
  [][\A k \in CallIds : fetchFails(k) => banners' = <<>>]_vars

\* C7 amended: a failed fetch leaves the configuration, the queues and the
\* wrappers as they were; a failed initial load therefore leaves the banner
\* list empty, places nothing and installs no timer.
C7_FailureKeepsConfiguration ==
  [][\A k \in CallIds :
       fetchFails(k) =>
         /\ UNCHANGED <<cfgVars, adQueues, wrapper>>
         /\ k = 0 => /\ banners' = <<>>
                     /\ pending' = <<>>
                     /\ ~rotationTimer'
                     /\ ~refreshTimer'
                     /\ \A c \in Containers : ~wrapper'[c].exists]_vars

\* a periodic refresh got a response that was not ok, and the ads loaded
\* before are still configured and displayed
C7_Witness ==
  /\ calls[1].pc = "idle"
  /\ calls[1].res = "notOk"
  /\ Len(banners) = 2
  /\ wrapper["B"].exists

\* C8: once initAdInjector has run, the refresh timer is installed.
C8_RefreshTimerUnconditional == initPc = "done" => refreshTimer

entryConfig(e) ==
  [adConfigBanners |-> e.banners,
   banners |-> bannerMarkup(e.banners),
   containerSelectors |->
     IF Len(e.containers) > 0 /\ e.containers[1].type = "obj" /\ e.containers[1].v # ""
     THEN mapNames(e.containers) ELSE e.containers,
   copySiblingSelector |-> e.copySiblingSelector]

\* C9: whenever a rotation tick can run, the banner list, the selectors, the
\* copy-sibling selector and window._adConfigBanners come from one
\* configuration: none yet, or one entry for the site of one served document.
C9_NoTornConfiguration ==
  (rotationTimer /\ pending = <<>>) =>
    \/ CurrentConfig = NoConfig
    \/ \E body \in server :
         \E i \in DOMAIN body.entries :
           /\ body.entries[i].property_id = propertyId
           /\ CurrentConfig = entryConfig(body.entries[i])

\* C10: a sendAd that takes a banner from the container's queue leaves that
\* banner's markup as the content of the container's wrapper.
C10_DrawnAdDisplayed ==
  [][\A c \in Containers :
       (SendAdOn(c) /\ adQueues' # adQueues) =>
         /\ wrapper'[c].exists
         /\ wrapper'[c].kind \in {"ad", "clone", "link"}
         /\ wrapper'[c].ad = adHtml']_vars

====
